---- MODULE Spec2Model ----
(***************************************************************************)
(* Model of scripts/extract.py: run(args) from the creation of the output  *)
(* directory (line 82) to the end of the batch loop (line 146).            *)
(*                                                                         *)
(* Strings are sequences of one-character strings, so that str.split and   *)
(* the f-string that builds the output file name are computed, not         *)
(* assumed.  Tensors are functions over 0-based indices, as in Python; the *)
(* feature dimension is a single integer.  A quotient computed by torch    *)
(* (a mean, an average) is kept as the pair [num, den] of the dividend and *)
(* the divisor the code uses.                                              *)
(***************************************************************************)
EXTENDS Integers, Sequences, FiniteSets, TLC

(***************************************************************************)
(* Bounds of the model.                                                    *)
(***************************************************************************)
MaxLayers == 1      \* model.num_layers ranges over 1..MaxLayers
MaxTrunc == 2       \* --truncation_seq_length ranges over 1..MaxTrunc
MaxSeqs == 2        \* a small FASTA file holds 0..MaxSeqs sequences

(***************************************************************************)
(* Program constants.                                                      *)
(***************************************************************************)
start_batch == 0
end_batch == 1200

Kinds == {"mean", "per_tok", "avg_per_tok", "bos", "contacts"}

Min(a, b) == IF a <= b THEN a ELSE b
Max(a, b) == IF a >= b THEN a ELSE b

RECURSIVE SetMax(_)
SetMax(S) == IF S = {} THEN 0
             ELSE LET x == CHOOSE y \in S : TRUE IN Max(x, SetMax(S \ {x}))

RECURSIVE SeqSum(_)
SeqSum(s) == IF s = <<>> THEN 0 ELSE Head(s) + SeqSum(Tail(s))

Range(s) == {s[k] : k \in 1..Len(s)}

(***************************************************************************)
(* The input: FASTA entries (header line, residue string).                 *)
(***************************************************************************)
Residues(n) == [k \in 1..n |-> "A"]

Pool ==
  << [label |-> <<"a", "_", "b", " ", "c">>, str |-> Residues(1)],
     [label |-> <<"a", " ", "b", "_", "c">>, str |-> Residues(3)],
     [label |-> <<"a", "b">>,                str |-> Residues(2)] >>

\* The entries of Pool whose index is in I, in file order.
RECURSIVE Enum(_, _)
Enum(I, j) ==
  IF j > Len(Pool) THEN <<>>
  ELSE (IF j \in I THEN <<Pool[j]>> ELSE <<>>) \o Enum(I, j + 1)

\* s cut into consecutive batches after the positions in C.
RECURSIVE Cut(_, _, _, _)
Cut(s, C, k, cur) ==
  IF k > Len(s) THEN (IF cur = <<>> THEN <<>> ELSE <<cur>>)
  ELSE IF k \in C THEN <<Append(cur, s[k])>> \o Cut(s, C, k + 1, <<>>)
  ELSE Cut(s, C, k + 1, Append(cur, s[k]))

SmallLoaders ==
  UNION { { Cut(Enum(I, 1), C, 1, <<>>) : C \in SUBSET (1..(Cardinality(I) - 1)) }
          : I \in { J \in SUBSET (1..Len(Pool)) : Cardinality(J) <= MaxSeqs } }

\* A run of end_batch + 1 batches of one sequence each: the last batch lies
\* beyond the batch window.
LongLoader ==
  [b \in 1..(end_batch + 1) |->
     << [label |-> <<ToString(b), " ", "x">>, str |-> Residues(1)] >>]

\* --repr_layers: one index, or two (two layers, or the same layer twice),
\* each legal or one step outside the legal range.
ReprLayerLists(n) ==
  UNION { [1..len -> (-(n + 2))..(n + 1)] : len \in {1, 2} }

VARIABLES
  num_layers,             \* model.num_layers
  args_repr_layers,       \* args.repr_layers
  include,                \* args.include
  truncation_seq_length,  \* args.truncation_seq_length
  data_loader,            \* the batches data_loader yields, in order
  pc,                     \* "start", "loop", "extract", "done", "error"
  error,                  \* the exception that ended the run, or "none"
  return_contacts,
  repr_layers,
  batch_idx,
  i,                      \* position of the inner loop over labels
  out,                    \* representations and contacts of the current batch
  fs,                     \* the output directory: file name -> saved result
  invoked,                \* history: the calls of model(...)
  writes                  \* history: the calls of torch.save(...)

vars == << num_layers, args_repr_layers, include, truncation_seq_length,
           data_loader, pc, error, return_contacts, repr_layers, batch_idx,
           i, out, fs, invoked, writes >>

args == << num_layers, args_repr_layers, include, truncation_seq_length,
           data_loader >>

NoOut == [batch |-> -1, representations |-> <<>>, contacts |-> <<>>]

InitProgram ==
  /\ pc = "start"
  /\ error = "none"
  /\ return_contacts = FALSE
  /\ repr_layers = <<>>
  /\ batch_idx = 0
  /\ i = 0
  /\ out = NoOut
  /\ fs = <<>>
  /\ invoked = <<>>
  /\ writes = <<>>

\* The state at line 82: the model is loaded and is no MSA Transformer
\* (lines 65-70), the FASTA file is read and batched (lines 75-79).  Either a
\* small file with any options, or the long file with the default layer.
Init ==
  /\ \/ /\ num_layers \in 1..MaxLayers
        /\ args_repr_layers \in ReprLayerLists(num_layers)
        /\ include \in (SUBSET Kinds) \ {{}}
        /\ truncation_seq_length \in 1..MaxTrunc
        /\ data_loader \in SmallLoaders
     \/ /\ num_layers = 1
        /\ args_repr_layers = <<-1>>
        /\ include = {"mean"}
        /\ truncation_seq_length = 1
        /\ data_loader = LongLoader
  /\ InitProgram

(***************************************************************************)
(* Lines 83-86.                                                            *)
(***************************************************************************)
ReturnContactsMut(inc) == TRUE

ReturnContacts(inc) == "contacts" \in inc

InRangeMut(idx, n) == -(n + 1) <= idx /\ idx <= n + 1

InRange(idx, n) == -(n + 1) <= idx /\ idx <= n

resolveMut(idx, n) == (idx + n + 1) % n

resolve(idx, n) == (idx + n + 1) % (n + 1)

Validate ==
  /\ pc = "start"
  /\ return_contacts' = ReturnContacts(include)
  /\ IF \A k \in 1..Len(args_repr_layers) : InRange(args_repr_layers[k], num_layers)
     THEN /\ repr_layers' = [k \in 1..Len(args_repr_layers) |->
                               resolve(args_repr_layers[k], num_layers)]
          /\ pc' = "loop"
          /\ error' = error
     ELSE /\ repr_layers' = repr_layers
          /\ pc' = "error"
          /\ error' = "AssertionError"
  /\ UNCHANGED << args, batch_idx, i, out, fs, invoked, writes >>

(***************************************************************************)
(* The collaborators of run: the batch converter, which truncates every    *)
(* sequence to truncation_seq_length tokens and pads the batch to its      *)
(* longest row plus the leading and the trailing marker, and the model,    *)
(* which returns one activation tensor per distinct requested layer and,   *)
(* on request, a contact map over the content positions.                   *)
(***************************************************************************)
PaddedLen(batch, M) == 2 + SetMax({Min(M, Len(batch[r].str)) : r \in 1..Len(batch)})

\* Activation of `layer` at position p of row r of batch b.
Val(layer, b, r, p) == 1 + ((layer * 7 + b * 5 + r * 3 + p) % 97)

\* Contact score of positions p, q of row r of batch b.
Con(b, r, p, q) == 1 + ((b * 5 + r * 3 + p * 11 + q) % 97)

Model(b, batch, layers, want, M) ==
  LET W == PaddedLen(batch, M)
      rows == 0..(Len(batch) - 1)
  IN [ representations |->
         [l \in Range(layers) |-> [r \in rows |-> [p \in 0..(W - 1) |-> Val(l, b, r, p)]]],
       contacts |->
         IF want
         THEN [r \in rows |-> [p \in 0..(W - 3) |-> [q \in 0..(W - 3) |-> Con(b, r, p, q)]]]
         ELSE <<>> ]

(***************************************************************************)
(* Lines 101-109: the results are moved to the host, the activations in    *)
(* half precision.  A float16 holds every integer up to 2048 exactly and   *)
(* every second integer up to 4096, rounding ties to the even significand. *)
(***************************************************************************)
Half(x) ==
  IF x <= 2048 THEN x
  ELSE IF x % 2 = 0 THEN x
  ELSE IF (x + 1) % 4 = 0 THEN x + 1 ELSE x - 1

ToHost(b, o) ==
  [ batch |-> b,
    representations |->
      [l \in DOMAIN o.representations |->
         [r \in DOMAIN o.representations[l] |->
            [p \in DOMAIN o.representations[l][r] |-> Half(o.representations[l][r][p])]]],
    contacts |-> o.contacts ]

(***************************************************************************)
(* Python helpers: str.split(sep), t[a:b] on one row, sums.                *)
(***************************************************************************)
RECURSIVE SplitAcc(_, _, _)
SplitAcc(s, sep, cur) ==
  IF s = <<>> THEN <<cur>>
  ELSE IF Head(s) = sep THEN <<cur>> \o SplitAcc(Tail(s), sep, <<>>)
  ELSE SplitAcc(Tail(s), sep, Append(cur, Head(s)))

Split(s, sep) == SplitAcc(s, sep, <<>>)

\* row[a:b] for 0 <= a <= b: the positions a .. b-1 that exist, in order.
Slice(row, a, b) ==
  LET hi == Min(b, Cardinality(DOMAIN row))
  IN [k \in 1..Max(hi - a, 0) |-> row[a + k - 1]]

RECURSIVE SumOver(_, _)
SumOver(S, f) ==
  IF S = {} THEN 0
  ELSE LET x == CHOOSE y \in S : TRUE IN f[x] + SumOver(S \ {x}, f)

(***************************************************************************)
(* Lines 112-141: the result bundle of row r of the current batch.         *)
(***************************************************************************)
OutputFile(id, label) == id \o <<"_">> \o label \o <<".", "p", "t">>

truncate_lenMut(M, str) == M

truncate_len(M, str) == Min(M, Len(str))

ResultKeys(inc, want) ==
  {"id", "label"}
    \cup (IF "per_tok" \in inc THEN {"representations"} ELSE {})
    \cup (IF "avg_per_tok" \in inc THEN {"avg_per_tok"} ELSE {})
    \cup (IF "mean" \in inc THEN {"mean_representations"} ELSE {})
    \cup (IF "bos" \in inc THEN {"bos_representations"} ELSE {})
    \cup (IF want THEN {"contacts"} ELSE {})

Result(id, label, r, t, inc, want, o, layers) ==
  LET reps == o.representations
      tok(l) == Slice(reps[l][r], 1, t + 1)
      tmp == [l \in DOMAIN reps |-> tok(l)]
  IN [ key \in ResultKeys(inc, want) |->
       CASE key = "id" -> id
         [] key = "label" -> label
         [] key = "representations" -> tmp
         [] key = "avg_per_tok" ->
              LET any == CHOOSE l \in DOMAIN tmp : TRUE
              IN [p \in 1..Len(tmp[any]) |->
                    [ num |-> SumOver(DOMAIN tmp, [l \in DOMAIN tmp |-> tmp[l][p]]),
                      den |-> Len(layers) ]]
         [] key = "mean_representations" ->
              [l \in DOMAIN reps |-> [num |-> SeqSum(tok(l)), den |-> Len(tok(l))]]
         [] key = "bos_representations" ->
              [l \in DOMAIN reps |-> reps[l][r][0]]
         [] key = "contacts" ->
              LET c == o.contacts[r]
                  n == Min(t, Cardinality(DOMAIN c))
              IN [p \in 1..n |-> [q \in 1..n |-> c[p - 1][q - 1]]] ]

(***************************************************************************)
(* Lines 91-92: the head of the loop over the batches.                     *)
(***************************************************************************)
InWindow(b) == start_batch <= b /\ b < end_batch

Labels == data_loader[batch_idx + 1]

\* StopIteration: the loop, and with it the run, ends.
Exhausted ==
  /\ pc = "loop"
  /\ batch_idx = Len(data_loader)
  /\ pc' = "done"
  /\ UNCHANGED << args, error, return_contacts, repr_layers, batch_idx, i, out,
                  fs, invoked, writes >>

\* Line 92 is false: the batch is dropped.
SkipBatch ==
  /\ pc = "loop"
  /\ batch_idx < Len(data_loader)
  /\ ~InWindow(batch_idx)
  /\ batch_idx' = batch_idx + 1
  /\ UNCHANGED << args, pc, error, return_contacts, repr_layers, i, out, fs,
                  invoked, writes >>

Call == [batch |-> batch_idx, repr_layers |-> repr_layers,
         return_contacts |-> return_contacts]

\* Lines 93-109: the model runs on the batch.
Infer ==
  /\ pc = "loop"
  /\ batch_idx < Len(data_loader)
  /\ InWindow(batch_idx)
  /\ invoked' = Append(invoked, Call)
  /\ out' = ToHost(batch_idx, Model(batch_idx, Labels, repr_layers, return_contacts,
                                    truncation_seq_length))
  /\ i' = 0
  /\ pc' = "extract"
  /\ UNCHANGED << args, error, return_contacts, repr_layers, batch_idx, fs, writes >>

\* Line 99 raises (e.g. out of memory): the exception ends the run.
InferFail ==
  /\ pc = "loop"
  /\ batch_idx < Len(data_loader)
  /\ InWindow(batch_idx)
  /\ invoked' = Append(invoked, Call)
  /\ pc' = "error"
  /\ error' = "InferenceError"
  /\ UNCHANGED << args, return_contacts, repr_layers, batch_idx, i, out, fs, writes >>

(***************************************************************************)
(* Lines 111-146: the loop over the labels of the batch.                   *)
(***************************************************************************)
RowsLeftMut(k, labels) == k < Len(labels) - 1

RowsLeft(k, labels) == k < Len(labels)

Parts == Split(Labels[i + 1].label, " ")

Bundle ==
  Result(Parts[1], Parts[2], i,
         truncate_len(truncation_seq_length, Labels[i + 1].str),
         include, return_contacts, out, repr_layers)

Write(id, label, file, result) ==
  [batch |-> batch_idx, row |-> i, id |-> id, label |-> label,
   file |-> file, result |-> result]

Store(file, result) ==
  [f \in DOMAIN fs \cup {file} |-> IF f = file THEN result ELSE fs[f]]

\* One row: the result is built and torch.save writes it.
SaveSequence ==
  /\ pc = "extract"
  /\ RowsLeft(i, Labels)
  /\ Len(Parts) = 2
  /\ LET file == OutputFile(Parts[1], Parts[2])
     IN /\ fs' = Store(file, Bundle)
        /\ writes' = Append(writes, Write(Parts[1], Parts[2], file, Bundle))
  /\ i' = i + 1
  /\ UNCHANGED << args, pc, error, return_contacts, repr_layers, batch_idx, out,
                  invoked >>

\* Line 112: the header does not split into exactly two parts.
SplitFail ==
  /\ pc = "extract"
  /\ RowsLeft(i, Labels)
  /\ Len(Parts) # 2
  /\ pc' = "error"
  /\ error' = "ValueError"
  /\ UNCHANGED << args, return_contacts, repr_layers, batch_idx, i, out, fs,
                  invoked, writes >>

Partial == [key \in {"truncated"} |-> TRUE]

\* Line 143 raises: torch.save has either not created the file yet, or has
\* opened it (emptying a file of that name) and left it incomplete.
SaveFail ==
  /\ pc = "extract"
  /\ RowsLeft(i, Labels)
  /\ Len(Parts) = 2
  /\ \/ fs' = fs
     \/ fs' = Store(OutputFile(Parts[1], Parts[2]), Partial)
  /\ pc' = "error"
  /\ error' = "StorageError"
  /\ UNCHANGED << args, return_contacts, repr_layers, batch_idx, i, out, invoked,
                  writes >>

\* The labels of the batch are exhausted: back to line 91.
EndBatch ==
  /\ pc = "extract"
  /\ ~RowsLeft(i, Labels)
  /\ batch_idx' = batch_idx + 1
  /\ pc' = "loop"
  /\ UNCHANGED << args, error, return_contacts, repr_layers, i, out, fs, invoked,
                  writes >>

Next ==
  \/ Validate
  \/ Exhausted
  \/ SkipBatch
  \/ Infer
  \/ InferFail
  \/ SaveSequence
  \/ SplitFail
  \/ SaveFail
  \/ EndBatch

Spec == Init /\ [][Next]_vars

(***************************************************************************)
(* Vocabulary of the properties.                                           *)
(***************************************************************************)
Batches == 0..(Len(data_loader) - 1)

RowsOf(b) == 0..(Len(data_loader[b + 1]) - 1)

Entry(b, r) == data_loader[b + 1][r + 1]

InputSeqs == UNION { {<<b, r>> : r \in RowsOf(b)} : b \in Batches }

IdOf(e) == Split(e.label, " ")[1]

Validated == repr_layers # <<>>

\* The activations the model produced for the batch of the write w.
Activations(w) ==
  Model(w.batch, data_loader[w.batch + 1], repr_layers, return_contacts,
        truncation_seq_length).representations

TrueLength(w) == Len(Entry(w.batch, w.row).str)

\* C1: every requested index i of the legal range resolves to
\* (i + numLayers + 1) mod (numLayers + 1), which lies in 0..numLayers, is i
\* itself when i >= 0 and is the resolution of i + (numLayers + 1) when
\* i < 0; so -1 resolves to numLayers and 0 to 0.
C1_LayerIndexResolution ==
  Validated =>
    /\ Len(repr_layers) = Len(args_repr_layers)
    /\ \A k \in 1..Len(repr_layers) :
         LET idx == args_repr_layers[k]
             r == repr_layers[k]
         IN /\ r \in 0..num_layers
            /\ r = (idx + num_layers + 1) % (num_layers + 1)
            /\ idx >= 0 => r = idx
            /\ idx < 0 => r = idx + num_layers + 1
            /\ idx = -1 => r = num_layers
            /\ idx = 0 => r = 0
    /\ \A j, k \in 1..Len(repr_layers) :
         (args_repr_layers[k] \in 0..num_layers
            /\ args_repr_layers[j] = args_repr_layers[k] - (num_layers + 1))
         => repr_layers[j] = repr_layers[k]

C1_Witness ==
  /\ Validated
  /\ \E j, k \in 1..Len(repr_layers) :
       /\ args_repr_layers[k] = num_layers
       /\ args_repr_layers[j] = -1
       /\ repr_layers[j] = num_layers

OutOfRange ==
  \E k \in 1..Len(args_repr_layers) :
    \/ args_repr_layers[k] < -(num_layers + 1)
    \/ args_repr_layers[k] > num_layers

\* C2: when a requested layer index lies outside the legal range, the run
\* goes from its start to the validation error and nowhere else: the model
\* is never invoked and nothing is ever written.
C2_OutOfRangeRejected ==
  OutOfRange =>
    /\ pc \in {"start", "error"}
    /\ pc = "error" => error = "AssertionError"
    /\ invoked = <<>>
    /\ writes = <<>>
    /\ DOMAIN fs = {}

C2_Witness ==
  /\ OutOfRange
  /\ pc = "error"
  /\ error = "AssertionError"
  /\ data_loader # <<>>

\* C3: a run that finishes without error has written exactly one artifact
\* for each of its input sequences.
C3_OneArtifactPerSequence ==
  pc = "done" =>
    /\ Cardinality(DOMAIN fs) = Cardinality(InputSeqs)
    /\ \A br \in InputSeqs :
         LET parts == Split(Entry(br[1], br[2]).label, " ")
         IN \E file \in DOMAIN fs :
              /\ fs[file]["id"] = parts[1]
              /\ fs[file]["label"] = parts[2]

\* Windows a caller may ask for: the first batch only, or the first 1200.
Windows == {<<0, 1>>, <<start_batch, end_batch>>}

\* C4: whichever window (lo, hi) is asked for, a finished run has run
\* through the model exactly the batches b with lo <= b < hi.  (The program
\* has no input that sets the window, so its runs are the same for every
\* window asked for.)
C4_ConfigurableWindow ==
  \A w \in Windows :
    pc = "done" =>
      \A b \in Batches :
        (\E k \in 1..Len(invoked) : invoked[k].batch = b) <=> (w[1] <= b /\ b < w[2])

\* C5: every per-layer per_tok array of a written bundle has min(M, L)
\* positions, which are the positions 1..min(M, L) of the sequence's row in
\* order, and holds no other position of the row.
C5_TruncationWindow ==
  "per_tok" \in include =>
    \A k \in 1..Len(writes) :
      LET w == writes[k]
          n == IF truncation_seq_length <= TrueLength(w)
               THEN truncation_seq_length ELSE TrueLength(w)
          per_tok == w.result["representations"]
      IN /\ DOMAIN per_tok = Range(repr_layers)
         /\ \A l \in DOMAIN per_tok :
              LET row == Activations(w)[l][w.row]
              IN /\ Len(per_tok[l]) = n
                 /\ \A p \in 1..Len(per_tok[l]) : per_tok[l][p] = row[p]
                 /\ \A q \in (DOMAIN row) \ (1..n) :
                      \A p \in 1..Len(per_tok[l]) : per_tok[l][p] # row[q]

C5_Witness ==
  /\ "per_tok" \in include
  /\ \E k \in 1..Len(writes) :
       /\ TrueLength(writes[k]) > truncation_seq_length
       /\ \E j \in 1..Len(writes) : TrueLength(writes[j]) < truncation_seq_length

\* C6: avg_per_tok of a written bundle is, position by position, the sum of
\* the per_tok slices of the resolved set of layers divided by the number of
\* layers in that set.
C6_AverageOverLayerSet ==
  \A k \in 1..Len(writes) :
    "avg_per_tok" \in include =>
      LET w == writes[k]
          n == Min(truncation_seq_length, TrueLength(w))
          S == Range(repr_layers)
          avg == w.result["avg_per_tok"]
      IN /\ Len(avg) = n
         /\ \A p \in 1..Len(avg) :
              avg[p].num * Cardinality(S)
                = SumOver(S, [l \in S |-> Activations(w)[l][w.row][p]]) * avg[p].den

DistinctIds ==
  \A x, y \in InputSeqs :
    x # y => IdOf(Entry(x[1], x[2])) # IdOf(Entry(y[1], y[2]))

\* C7: in a run whose sequence identifiers are pairwise distinct, no file is
\* written twice.
C7_WriteOnce ==
  (\E j, k \in 1..Len(writes) : j # k /\ writes[j].file = writes[k].file)
    => ~DistinctIds

\* C8: when inference on batch k or a write fails, the run has stopped, and
\* every artifact written for the batches before k is present and as it was
\* written.
C8_FailFastNoRollback ==
  (pc = "error" /\ error \in {"InferenceError", "StorageError"}) =>
    /\ ~ENABLED Next
    /\ \A k \in 1..Len(writes) :
         writes[k].batch < batch_idx =>
           /\ writes[k].file \in DOMAIN fs
           /\ fs[writes[k].file] = writes[k].result

\* C9: the model is invoked in the order of the batches and once per batch;
\* when it is invoked for a batch, every sequence of the batch invoked just
\* before has been written; rows are written in order, each from the
\* activations of the batch invoked last, which is the batch the loop is at.
\* (invoked and writes only grow, so every call and every write is the last
\* one in the state that follows it.)
C9_SequentialBatches ==
  /\ Len(invoked) >= 2 =>
       LET before == invoked[Len(invoked) - 1].batch
       IN /\ before < invoked[Len(invoked)].batch
          /\ \A r \in RowsOf(before) :
               \E d \in 0..(Len(writes) - 1) :
                 LET w == writes[Len(writes) - d]
                 IN w.batch = before /\ w.row = r
  /\ Len(writes) >= 1 =>
       /\ Len(invoked) >= 1
       /\ writes[Len(writes)].batch <= invoked[Len(invoked)].batch
  /\ (pc = "extract" /\ i > 0) =>
       /\ writes[Len(writes)].batch = batch_idx
       /\ writes[Len(writes)].row = i - 1
  /\ Len(writes) >= 2 =>
       LET w1 == writes[Len(writes) - 1]
           w2 == writes[Len(writes)]
       IN \/ w1.batch < w2.batch /\ w2.row = 0
          \/ w1.batch = w2.batch /\ w2.row = w1.row + 1
  /\ pc = "extract" =>
       /\ out.batch = batch_idx
       /\ invoked[Len(invoked)].batch = batch_idx
  /\ pc = "done" =>
       \A b \in Batches :
         b < end_batch => Cardinality({k \in 1..Len(invoked) : invoked[k].batch = b}) = 1

C9_Witness ==
  /\ Len(invoked) >= 2
  /\ Len(writes) >= 2
  /\ writes[1].batch = invoked[1].batch
  /\ writes[Len(writes)].batch = invoked[Len(invoked)].batch

KeyOf(kind) ==
  CASE kind = "per_tok" -> "representations"
    [] kind = "avg_per_tok" -> "avg_per_tok"
    [] kind = "mean" -> "mean_representations"
    [] kind = "bos" -> "bos_representations"
    [] kind = "contacts" -> "contacts"

\* C10: a written bundle holds id, label and the entry of each requested
\* kind, and nothing else; the model is asked for contacts exactly when
\* contacts is a requested kind.  (Stated of the last write and the last
\* call: every write and every call is the last one in the state after it.)
C10_KindsDecideContent ==
  /\ writes # <<>> =>
       DOMAIN writes[Len(writes)].result
         = {"id", "label"} \cup {KeyOf(kind) : kind \in include}
  /\ invoked # <<>> =>
       (invoked[Len(invoked)].return_contacts <=> "contacts" \in include)

C10_Witness ==
  /\ include = {"mean", "bos"}
  /\ Len(writes) >= 1
  /\ Len(invoked) >= 1

====
